---- MODULE Spec2Model ----
(***************************************************************************)
(* Model of the Dispatcharr timeshift plugin (hooks.py, views.py).         *)
(*                                                                         *)
(* Strings are sequences of one-character strings.  A request path is the  *)
(* sequence of its "/"-separated segments (the path is their join with     *)
(* "/"), so "/timeshift/a" is << <<>>, Timeshift, <<"a">> >>.              *)
(*                                                                         *)
(* A function object is a record [k, gen]: k names the function, gen tells *)
(* apart the closures that successive install_hooks calls create.          *)
(***************************************************************************)
EXTENDS Integers, Sequences, FiniteSets, TLC

VARIABLES
    URLResolver_resolve,            \* django.urls.resolvers.URLResolver.resolve
    xc_get_live_streams,            \* apps.output.views.xc_get_live_streams
    stream_xc,                      \* apps.proxy.ts_proxy.views.stream_xc
    urlpatterns,                    \* dispatcharr.urls.urlpatterns: pattern -> callback
    _original_resolve,              \* hooks.py module globals
    _original_xc_get_live_streams,
    _original_stream_xc,
    _original_url_callbacks,        \* dict: id(pattern) -> saved callback
    installs,                       \* number of install_hooks calls so far
    plugin_config,                  \* state of the PluginConfig row in storage
    last                            \* the last operation and what it did

vars == <<URLResolver_resolve, xc_get_live_streams, stream_xc, urlpatterns,
          _original_resolve, _original_xc_get_live_streams, _original_stream_xc,
          _original_url_callbacks, installs, plugin_config, last>>

hookVars == <<URLResolver_resolve, xc_get_live_streams, stream_xc, urlpatterns,
              _original_resolve, _original_xc_get_live_streams,
              _original_stream_xc, _original_url_callbacks>>

-----------------------------------------------------------------------------
(* Bounds *)

MaxInstalls == 3        \* install_hooks is called at most this many times
MaxDepth == 4           \* call depth at which the interpreter raises RecursionError

-----------------------------------------------------------------------------
(* Function objects *)

None == [k |-> "None", gen |-> 0]
HostResolve == [k |-> "URLResolver.resolve", gen |-> 0]
HostXcGetLiveStreams == [k |-> "xc_get_live_streams", gen |-> 0]
HostStreamXc == [k |-> "stream_xc", gen |-> 0]
HostOtherView == [k |-> "handle_404", gen |-> 0]
TimeshiftProxyView == [k |-> "timeshift_proxy", gen |-> 0]

Closure(name, n) == [k |-> name, gen |-> n]

\* The host's URL patterns: two routes served by stream_xc, one by another view.
Patterns == {"xc_live", "xc_short", "catch_all"}

HostUrlpatterns ==
    [p \in Patterns |-> IF p = "catch_all" THEN HostOtherView ELSE HostStreamXc]

EmptyDict == [x \in {} |-> None]

-----------------------------------------------------------------------------
(* Characters and strings *)

Digits == {"0", "1", "2", "3", "4", "5", "6", "7", "8", "9"}
TimestampChars == Digits \cup {"-", ":"}

Empty == <<>>
Timeshift == <<"t", "i", "m", "e", "s", "h", "i", "f", "t">>
Live == <<"l", "i", "v", "e">>
DotTs == <<".", "t", "s">>

\* mutant: only the form with the leading "/" is recognised
startswith_leading_slash(path, pre) ==
    /\ Len(path) > Len(pre)
    /\ SubSeq(path, 1, Len(pre)) = pre
    /\ pre[1] = Empty

\* str.startswith for a prefix given as segments followed by a "/": the path
\* starts with the segments of pre, and at least one more segment follows.
startswith(path, pre) ==
    /\ Len(path) > Len(pre)
    /\ SubSeq(path, 1, Len(pre)) = pre

RECURSIVE rstrip(_, _)
\* str.rstrip(chars): drop trailing characters that are in chars
rstrip(s, chars) ==
    IF s # <<>> /\ s[Len(s)] \in chars
    THEN rstrip(SubSeq(s, 1, Len(s) - 1), chars)
    ELSE s

AllIn(s, chars) == \A i \in 1..Len(s) : s[i] \in chars

-----------------------------------------------------------------------------
(* Plugin enable flag *)

ConfigStates == {"enabled", "disabled", "missing", "error"}

\* mutant: the flag is read once and kept (here: kept as enabled)
_is_plugin_enabled_cached == TRUE

\* mutant: a failed configuration read counts as enabled (fail-open)
_is_plugin_enabled_fail_open == plugin_config # "disabled"

\* _is_plugin_enabled: PluginConfig.objects.get(...).enabled, False on any
\* exception (row missing, storage error)
_is_plugin_enabled == plugin_config = "enabled"

-----------------------------------------------------------------------------
(* install_hooks / uninstall_hooks *)

\* _patch_xc_get_live_streams: no already-patched guard
_patch_xc_get_live_streams ==
    /\ _original_xc_get_live_streams' = xc_get_live_streams
    /\ xc_get_live_streams' = Closure("patched_xc_get_live_streams", installs + 1)

\* the patterns whose callback is the function about to be saved as original
PatternsToPatch == {p \in Patterns : urlpatterns[p] = stream_xc}

\* _patch_stream_xc: no already-patched guard; also rewrites pattern callbacks
_patch_stream_xc ==
    /\ _original_stream_xc' = stream_xc
    /\ stream_xc' = Closure("patched_stream_xc", installs + 1)
    /\ _original_url_callbacks' =
           [p \in (DOMAIN _original_url_callbacks) \cup PatternsToPatch |->
               IF p \in PatternsToPatch THEN stream_xc
               ELSE _original_url_callbacks[p]]
    /\ urlpatterns' =
           [p \in Patterns |->
               IF p \in PatternsToPatch
               THEN Closure("patched_stream_xc", installs + 1)
               ELSE urlpatterns[p]]

\* _patch_url_resolver: guarded by _original_resolve is not None
_patch_url_resolver ==
    IF _original_resolve # None
    THEN UNCHANGED <<_original_resolve, URLResolver_resolve>>
    ELSE /\ _original_resolve' = URLResolver_resolve
         /\ URLResolver_resolve' = Closure("patched_resolve", installs + 1)

install_hooks ==
    /\ installs < MaxInstalls
    /\ installs' = installs + 1
    /\ _patch_xc_get_live_streams
    /\ _patch_stream_xc
    /\ _patch_url_resolver
    /\ last' = [op |-> "install_hooks", arg |-> EmptyDict,
                res |-> [returned |-> TRUE, exc |-> "none"]]
    /\ UNCHANGED plugin_config

\* mutant: restores without testing that an original was saved
_restore_xc_get_live_streams_unguarded ==
    /\ xc_get_live_streams' = _original_xc_get_live_streams
    /\ _original_xc_get_live_streams' = None

_restore_xc_get_live_streams ==
    IF _original_xc_get_live_streams # None
    THEN /\ xc_get_live_streams' = _original_xc_get_live_streams
         /\ _original_xc_get_live_streams' = None
    ELSE UNCHANGED <<xc_get_live_streams, _original_xc_get_live_streams>>

_restore_stream_xc ==
    IF _original_stream_xc # None
    THEN /\ stream_xc' = _original_stream_xc
         /\ urlpatterns' =
                [p \in Patterns |->
                    IF p \in DOMAIN _original_url_callbacks
                    THEN _original_url_callbacks[p]
                    ELSE urlpatterns[p]]
         /\ _original_url_callbacks' = EmptyDict
         /\ _original_stream_xc' = None
    ELSE UNCHANGED <<stream_xc, urlpatterns, _original_url_callbacks,
                     _original_stream_xc>>

_restore_url_resolver ==
    IF _original_resolve # None
    THEN /\ URLResolver_resolve' = _original_resolve
         /\ _original_resolve' = None
    ELSE UNCHANGED <<URLResolver_resolve, _original_resolve>>

uninstall_hooks ==
    /\ _restore_xc_get_live_streams
    /\ _restore_stream_xc
    /\ _restore_url_resolver
    /\ last' = [op |-> "uninstall_hooks", arg |-> EmptyDict,
                res |-> [returned |-> TRUE, exc |-> "none"]]
    /\ UNCHANGED <<installs, plugin_config>>

\* The host's PluginManager (or the storage) changes the PluginConfig row.
SetPluginConfig ==
    \E c \in ConfigStates :
        /\ c # plugin_config
        /\ plugin_config' = c
        /\ last' = [op |-> "set_config", arg |-> [state |-> c],
                    res |-> [returned |-> TRUE, exc |-> "none"]]
        /\ UNCHANGED <<hookVars, installs>>

-----------------------------------------------------------------------------
(* URL resolution *)

NoGroups == [username |-> Empty, password |-> Empty, stream_id |-> Empty,
             timestamp |-> Empty, duration |-> Empty]

\* mutant: the pattern without its end anchor (segments may follow "{digits}.ts")
TIMESHIFT_PATTERN_match_unanchored(path) ==
    LET segs == IF path # <<>> /\ path[1] = Empty THEN Tail(path) ELSE path
        ok == /\ Len(segs) >= 6
              /\ segs[1] = Timeshift
              /\ segs[2] # Empty
              /\ segs[3] # Empty
              /\ segs[4] # Empty /\ AllIn(segs[4], Digits)
              /\ segs[5] # Empty /\ AllIn(segs[5], TimestampChars)
              /\ Len(segs[6]) > Len(DotTs)
              /\ SubSeq(segs[6], Len(segs[6]) - 2, Len(segs[6])) = DotTs
              /\ AllIn(SubSeq(segs[6], 1, Len(segs[6]) - 3), Digits)
    IN  IF ok
        THEN [matched |-> TRUE,
              groupdict |-> [username |-> segs[2], password |-> segs[3],
                             stream_id |-> segs[4], timestamp |-> segs[5],
                             duration |-> SubSeq(segs[6], 1, Len(segs[6]) - 3)]]
        ELSE [matched |-> FALSE, groupdict |-> NoGroups]

\* TIMESHIFT_PATTERN.match(path): the anchored pattern
\*   ^/?timeshift/([^/]+)/([^/]+)/(\d+)/([\d\-:]+)/(\d+)\.ts$
\* A segment holds no "/", so [^/]+ asks for a non-empty segment.
TIMESHIFT_PATTERN_match(path) ==
    LET segs == IF path # <<>> /\ path[1] = Empty THEN Tail(path) ELSE path
        ok == /\ Len(segs) = 6
              /\ segs[1] = Timeshift
              /\ segs[2] # Empty
              /\ segs[3] # Empty
              /\ segs[4] # Empty /\ AllIn(segs[4], Digits)
              /\ segs[5] # Empty /\ AllIn(segs[5], TimestampChars)
              /\ Len(segs[6]) > Len(DotTs)
              /\ SubSeq(segs[6], Len(segs[6]) - 2, Len(segs[6])) = DotTs
              /\ AllIn(SubSeq(segs[6], 1, Len(segs[6]) - 3), Digits)
    IN  IF ok
        THEN [matched |-> TRUE,
              groupdict |-> [username |-> segs[2], password |-> segs[3],
                             stream_id |-> segs[4], timestamp |-> segs[5],
                             duration |-> SubSeq(segs[6], 1, Len(segs[6]) - 3)]]
        ELSE [matched |-> FALSE, groupdict |-> NoGroups]

\* what the host's own URLResolver.resolve returns for a path
HostResolverMatch(path) ==
    [func |-> HostOtherView, kwargs |-> NoGroups, route |-> path, by |-> "host"]

RECURSIVE call_resolve(_, _, _)
RECURSIVE patched_resolve(_, _)

\* patched_resolve(self, path), called with `depth` frames left on the stack.
\* orig_calls lists the paths the host's resolve function was called with.
patched_resolve(path, depth) ==
    LET m == TIMESHIFT_PATTERN_match(path) IN
    IF /\ _is_plugin_enabled
       /\ (startswith(path, <<Empty, Timeshift>>) \/ startswith(path, <<Timeshift>>))
       /\ m.matched
    THEN [exc |-> "none",
          match |-> [func |-> TimeshiftProxyView, kwargs |-> m.groupdict,
                     route |-> path, by |-> "plugin"],
          orig_calls |-> <<>>]
    ELSE call_resolve(_original_resolve, path, depth - 1)

\* calling the function object f as resolve(self, path)
call_resolve(f, path, depth) ==
    IF depth = 0
    THEN [exc |-> "RecursionError", match |-> HostResolverMatch(Empty),
          orig_calls |-> <<>>]
    ELSE IF f = None
    THEN [exc |-> "TypeError", match |-> HostResolverMatch(Empty),
          orig_calls |-> <<>>]
    ELSE IF f.k = "patched_resolve"
    THEN patched_resolve(path, depth)
    ELSE [exc |-> "none", match |-> HostResolverMatch(path), orig_calls |-> <<path>>]

-----------------------------------------------------------------------------
(* The store: users, upstream accounts, streams, channels (read-only) *)

\* Python values that may be None
Some(v) == [some |-> TRUE, v |-> v]
Nothing == [some |-> FALSE, v |-> Empty]

\* dict.get(key) on a dict (a function on its keys); None when the key is absent
DictGet(d, key) == IF key \in DOMAIN d THEN Some(d[key]) ELSE Nothing

\* Python truthiness of an optional string: None and "" are falsy
Truthy(o) == o.some /\ o.v # Empty

\* (x or {}) for an optional dict
OrEmptyDict(o) == IF o.some THEN o.v ELSE EmptyDict

John == <<"j", "o", "h", "n">>
Root == <<"r", "o", "o", "t">>
Anna == <<"a", "n", "n", "a">>
Nopw == <<"n", "o", "p", "w">>
Paul == <<"p", "a", "u", "l">>
Ghost == <<"g", "h", "o", "s", "t">>
Secret == <<"s", "e", "c", "r", "e", "t">>
RootPw == <<"r", "p", "w">>
Wrong == <<"w", "r", "o", "n", "g">>

\* User rows; username is unique.  Anna's xc_password is the empty string,
\* Nopw has no custom_properties at all, Paul has a channel profile.
Users ==
    << [username |-> John, user_level |-> 1,
        custom_properties |-> Some([xc_password |-> Secret]), channel_profiles |-> {}],
       [username |-> Root, user_level |-> 10,
        custom_properties |-> Some([xc_password |-> RootPw]), channel_profiles |-> {}],
       [username |-> Anna, user_level |-> 1,
        custom_properties |-> Some([xc_password |-> Empty]), channel_profiles |-> {}],
       [username |-> Nopw, user_level |-> 10,
        custom_properties |-> Nothing, channel_profiles |-> {}],
       [username |-> Paul, user_level |-> 5,
        custom_properties |-> Some([xc_password |-> Secret]),
        channel_profiles |-> {"kids"}] >>

NoUser == [username |-> Empty, user_level |-> 0,
           custom_properties |-> Nothing, channel_profiles |-> {}]

\* M3U accounts
Accounts == [xc1 |-> [account_type |-> "XC"], std1 |-> [account_type |-> "STD"]]

P22 == <<"2", "2">>
P33 == <<"3", "3">>
P7 == <<"7">>
P5 == <<"5">>
P9 == <<"9">>
P4 == <<"4">>
P1 == <<"1">>

\* Stream rows in store order.  m3u_account is an account key or "null".
Streams ==
    << [id |-> 1, m3u_account |-> "xc1",
        custom_properties |-> Some([stream_id |-> P22, tv_archive |-> <<"1">>,
                                    tv_archive_duration |-> <<"7">>])],
       [id |-> 2, m3u_account |-> "xc1",
        custom_properties |-> Some([stream_id |-> P7, tv_archive |-> <<"0">>])],
       [id |-> 3, m3u_account |-> "std1",
        custom_properties |-> Some([stream_id |-> P5, tv_archive |-> <<"1">>])],
       [id |-> 4, m3u_account |-> "xc1",
        custom_properties |-> Some([stream_id |-> P9, tv_archive |-> <<"1">>])],
       [id |-> 5, m3u_account |-> "xc1",
        custom_properties |-> Some([stream_id |-> P4, tv_archive |-> <<"1">>])],
       [id |-> 6, m3u_account |-> "null", custom_properties |-> Nothing],
       [id |-> 7, m3u_account |-> "xc1",
        custom_properties |-> Some([stream_id |-> P33, tv_archive |-> <<"1">>,
                                    tv_archive_duration |-> <<"7", "d">>])] >>

NoStream == [id |-> 0, m3u_account |-> "null", custom_properties |-> Nothing]

\* Channel rows in store order; streams lists stream ids by channelstream order.
\* Channel 7 has the internal id that stream 2 has as provider id; stream 1
\* belongs to two channels; the first stream of channel 8 has a
\* tv_archive_duration that is no integer.
Channels ==
    << [id |-> 1, user_level |-> 1, uuid |-> "uuid-1", streams |-> <<1>>,
        enabled_profiles |-> {"kids"}],
       [id |-> 2, user_level |-> 10, uuid |-> "uuid-2", streams |-> <<2, 5>>,
        enabled_profiles |-> {}],
       [id |-> 7, user_level |-> 0, uuid |-> "uuid-7", streams |-> <<3, 1>>,
        enabled_profiles |-> {}],
       [id |-> 4, user_level |-> 5, uuid |-> "uuid-4", streams |-> <<6>>,
        enabled_profiles |-> {"kids"}],
       [id |-> 5, user_level |-> 0, uuid |-> "uuid-5", streams |-> <<>>,
        enabled_profiles |-> {"kids"}],
       [id |-> 8, user_level |-> 0, uuid |-> "uuid-8", streams |-> <<7>>,
        enabled_profiles |-> {}] >>

NoChannel == [id |-> 0, user_level |-> 0, uuid |-> "", streams |-> <<>>,
              enabled_profiles |-> {}]

InSeq(x, s) == \E i \in 1..Len(s) : s[i] = x

\* QuerySet.first(): the first row (in store order) among the rows whose
\* indices are hits, or None
First(rows, hits, none) ==
    IF hits = {} THEN [some |-> FALSE, v |-> none]
    ELSE [some |-> TRUE, v |-> rows[CHOOSE i \in hits : \A j \in hits : i <= j]]

-----------------------------------------------------------------------------
(* Python int() and pathlib stem *)

DigitSeq == <<"0", "1", "2", "3", "4", "5", "6", "7", "8", "9">>
DigitValue(c) == (CHOOSE i \in 1..10 : DigitSeq[i] = c) - 1

RECURSIVE DecimalValue(_)
DecimalValue(s) ==
    IF s = <<>> THEN 0
    ELSE 10 * DecimalValue(SubSeq(s, 1, Len(s) - 1)) + DigitValue(s[Len(s)])

\* int(s) for a string s: [ok, v]; ok = FALSE stands for ValueError
PyInt(s) ==
    LET signed == s # <<>> /\ s[1] \in {"+", "-"}
        body == IF signed THEN Tail(s) ELSE s
    IN  IF body # <<>> /\ AllIn(body, Digits)
        THEN [ok |-> TRUE,
              v |-> IF signed /\ s[1] = "-" THEN 0 - DecimalValue(body)
                    ELSE DecimalValue(body)]
        ELSE [ok |-> FALSE, v |-> 0]

\* the index of the last "." in s, 0 if there is none
LastDot(s) ==
    LET dots == {i \in 1..Len(s) : s[i] = "."} IN
    IF dots = {} THEN 0 ELSE CHOOSE i \in dots : \A j \in dots : j <= i

\* pathlib.Path(name).stem for a single path segment: the suffix starts at the
\* last "." unless that dot is the first or the last character
Stem(s) ==
    LET i == LastDot(s) IN
    IF 1 < i /\ i < Len(s) THEN SubSeq(s, 1, i - 1) ELSE s

-----------------------------------------------------------------------------
(* views.py: the timeshift handler *)

\* mutant: the supplied password is not compared with xc_password
_authenticate_user_no_compare(username, password) ==
    LET IsNamed(u) == u.username = username
        found == First(Users, {i \in DOMAIN Users : IsNamed(Users[i])}, NoUser)
        xc_password == DictGet(OrEmptyDict(found.v.custom_properties), "xc_password")
    IN  IF ~found.some THEN [some |-> FALSE, v |-> NoUser]
        ELSE IF ~Truthy(xc_password) THEN [some |-> FALSE, v |-> NoUser]
        ELSE found

\* _authenticate_user(username, password): the user, or None
_authenticate_user(username, password) ==
    LET IsNamed(u) == u.username = username
        found == First(Users, {i \in DOMAIN Users : IsNamed(Users[i])}, NoUser)
        xc_password == DictGet(OrEmptyDict(found.v.custom_properties), "xc_password")
    IN  IF ~found.some THEN [some |-> FALSE, v |-> NoUser]       \* User.DoesNotExist
        ELSE IF ~Truthy(xc_password) THEN [some |-> FALSE, v |-> NoUser]
        ELSE IF xc_password.v # password THEN [some |-> FALSE, v |-> NoUser]
        ELSE found

\* Stream.objects.filter(custom_properties__stream_id=sid,
\*                       m3u_account__account_type='XC').first()
XcStreamByProviderId(sid) ==
    LET Hit(st) ==
            /\ DictGet(OrEmptyDict(st.custom_properties), "stream_id") = Some(sid)
            /\ st.m3u_account \in DOMAIN Accounts
            /\ Accounts[st.m3u_account].account_type = "XC"
    IN  First(Streams, {i \in DOMAIN Streams : Hit(Streams[i])}, NoStream)

\* mutant of FirstChannelOf: the last channel holding the stream
FirstChannelOf_last(st) ==
    LET held == {i \in DOMAIN Channels : InSeq(st.id, Channels[i].streams)} IN
    IF held = {} THEN [some |-> FALSE, v |-> NoChannel]
    ELSE [some |-> TRUE, v |-> Channels[CHOOSE i \in held : \A j \in held : j <= i]]

\* stream.channels.first()
FirstChannelOf(st) ==
    LET Has(ch) == InSeq(st.id, ch.streams) IN
    First(Channels, {i \in DOMAIN Channels : Has(Channels[i])}, NoChannel)

\* mutant of _find_channel_by_provider_stream_id: an identifier that resolves
\* to no XC stream is looked up as an internal channel id
_find_channel_by_provider_stream_id_with_fallback(provider_stream_id) ==
    LET stream == XcStreamByProviderId(provider_stream_id)
        channel == FirstChannelOf(stream.v)
        internal_id == PyInt(provider_stream_id)
        by_id == First(Channels,
                       {i \in DOMAIN Channels :
                           internal_id.ok /\ Channels[i].id = internal_id.v},
                       NoChannel)
    IN  IF stream.some /\ channel.some
        THEN [channel |-> channel, stream |-> stream]
        ELSE [channel |-> by_id, stream |-> [some |-> by_id.some, v |-> NoStream]]

\* _find_channel_by_provider_stream_id: (channel, stream) or (None, None)
_find_channel_by_provider_stream_id(provider_stream_id) ==
    LET stream == XcStreamByProviderId(provider_stream_id)
        channel == FirstChannelOf(stream.v)
    IN  IF stream.some /\ channel.some
        THEN [channel |-> channel, stream |-> stream]
        ELSE [channel |-> [some |-> FALSE, v |-> NoChannel],
              stream |-> [some |-> FALSE, v |-> NoStream]]

\* mutant: the comparison written with <=
AccessDenied_le(user, channel) == user.user_level <= channel.user_level

\* "user.user_level < channel.user_level": the user may not view the channel
AccessDenied(user, channel) == user.user_level < channel.user_level

Response(status, body, exc, steps) ==
    [status |-> status, body |-> body, exc |-> exc, steps |-> steps,
     upstream_gets |-> 0]

\* mutant of timeshift_proxy: the channel is looked up by the third segment
timeshift_proxy_by_third_segment(kw) ==
    LET user == _authenticate_user(kw.username, kw.password)
        found == _find_channel_by_provider_stream_id(kw.stream_id)
        channel == found.channel
    IN  IF ~user.some
        THEN Response(403, "Invalid credentials", "none", <<"authenticate">>)
        ELSE IF ~channel.some
        THEN Response(404, "Channel not found", "Http404",
                      <<"authenticate", "resolve">>)
        ELSE IF AccessDenied(user.v, channel.v)
        THEN Response(403, "Access denied", "none",
                      <<"authenticate", "resolve", "authorize">>)
        ELSE Response(500, "Server Error", "ImportError",
                      <<"authenticate", "resolve", "authorize", "feature_check">>)

\* mutant of timeshift_proxy: the channel is resolved before the credentials
\* are checked
timeshift_proxy_resolve_first(kw) ==
    LET provider_stream_id == rstrip(kw.duration, {".", "t", "s"})
        user == _authenticate_user(kw.username, kw.password)
        found == _find_channel_by_provider_stream_id(provider_stream_id)
        channel == found.channel
    IN  IF ~channel.some
        THEN Response(404, "Channel not found", "Http404", <<"resolve">>)
        ELSE IF ~user.some
        THEN Response(403, "Invalid credentials", "none",
                      <<"resolve", "authenticate">>)
        ELSE IF AccessDenied(user.v, channel.v)
        THEN Response(403, "Access denied", "none",
                      <<"resolve", "authenticate", "authorize">>)
        ELSE Response(500, "Server Error", "ImportError",
                      <<"resolve", "authenticate", "authorize", "feature_check">>)

\* timeshift_proxy(request, username, password, stream_id, timestamp, duration).
\* steps lists the steps the handler entered, in order.  An exception that
\* leaves the view is answered by the host: Http404 as 404, any other as 500.
timeshift_proxy(kw) ==
    LET provider_stream_id == rstrip(kw.duration, {".", "t", "s"})
        user == _authenticate_user(kw.username, kw.password)
        found == _find_channel_by_provider_stream_id(provider_stream_id)
        channel == found.channel
    IN  IF ~user.some
        THEN Response(403, "Invalid credentials", "none", <<"authenticate">>)
        ELSE IF ~channel.some
        THEN Response(404, "Channel not found", "Http404",
                      <<"authenticate", "resolve">>)
        ELSE IF AccessDenied(user.v, channel.v)
        THEN Response(403, "Access denied", "none",
                      <<"authenticate", "resolve", "authorize">>)
        ELSE \* "from .hooks import _has_catchup_support": hooks.py defines no such
             \* name, so the import statement raises ImportError
             Response(500, "Server Error", "ImportError",
                      <<"authenticate", "resolve", "authorize", "feature_check">>)

-----------------------------------------------------------------------------
(* hooks.py: the catalog wrapper *)

\* The host's xc_get_live_streams: one entry per channel the user may see,
\* with the channel's internal id as stream_id.
HostCatalog(user) ==
    LET Visible(ch) == ch.user_level <= user.user_level
        idx == {i \in 1..Len(Channels) : Visible(Channels[i])}
        RECURSIVE Build(_)
        Build(n) ==
            IF n = 0 THEN <<>>
            ELSE IF n \in idx
                 THEN Append(Build(n - 1), [stream_id |-> Channels[n].id])
                 ELSE Build(n - 1)
    IN  Build(Len(Channels))

\* d[key] = value on a dict
DictSet(d, key, value) ==
    [x \in (DOMAIN d) \cup {key} |-> IF x = key THEN value ELSE d[x]]

\* int(props.get(key, 0))
IntProp(props, key) ==
    IF key \in DOMAIN props THEN PyInt(props[key]) ELSE [ok |-> TRUE, v |-> 0]

\* the body of the for loop of patched_xc_get_live_streams for one entry;
\* an exception leaves the loop body with the assignments made so far
EnhanceEntry(stream_data) ==
    LET HasId(ch) == ch.id = stream_data.stream_id
        channel == First(Channels, {i \in DOMAIN Channels : HasId(Channels[i])}, NoChannel)
        IsFirst(st) == channel.v.streams # <<>> /\ st.id = channel.v.streams[1]
        first_stream ==
            First(Streams, {i \in DOMAIN Streams : IsFirst(Streams[i])}, NoStream)
        props == OrEmptyDict(first_stream.v.custom_properties)
        tv_archive == IntProp(props, "tv_archive")
        tv_archive_duration == IntProp(props, "tv_archive_duration")
        provider_stream_id == DictGet(props, "stream_id")
        d1 == DictSet(stream_data, "tv_archive", tv_archive.v)
        d2 == DictSet(d1, "tv_archive_duration", tv_archive_duration.v)
        sid == PyInt(provider_stream_id.v)
    IN  IF ~channel.some THEN stream_data
        ELSE IF ~first_stream.some THEN stream_data
        ELSE IF ~tv_archive.ok THEN stream_data
        ELSE IF ~tv_archive_duration.ok THEN d1
        ELSE IF ~Truthy(provider_stream_id) THEN d2
        ELSE IF ~sid.ok THEN d2
        ELSE DictSet(d2, "stream_id", sid.v)

RECURSIVE call_xc_get_live_streams(_, _, _)
RECURSIVE patched_xc_get_live_streams(_, _)

\* patched_xc_get_live_streams(request, user, category_id).  host_calls counts
\* the calls of the host's function, passes the runs of the decoration loop.
patched_xc_get_live_streams(user, depth) ==
    LET r == call_xc_get_live_streams(_original_xc_get_live_streams, user, depth - 1) IN
    IF r.exc # "none" THEN r
    ELSE IF ~_is_plugin_enabled THEN r
    ELSE [r EXCEPT !.streams = [i \in 1..Len(r.streams) |-> EnhanceEntry(r.streams[i])],
                   !.passes = r.passes + 1]

\* calling the function object f as xc_get_live_streams(request, user, category_id)
call_xc_get_live_streams(f, user, depth) ==
    IF depth = 0
    THEN [exc |-> "RecursionError", streams |-> <<>>, host_calls |-> 0, passes |-> 0]
    ELSE IF f = None
    THEN [exc |-> "TypeError", streams |-> <<>>, host_calls |-> 0, passes |-> 0]
    ELSE IF f.k = "patched_xc_get_live_streams"
    THEN patched_xc_get_live_streams(user, depth)
    ELSE [exc |-> "none", streams |-> HostCatalog(user), host_calls |-> 1, passes |-> 0]

-----------------------------------------------------------------------------
(* hooks.py: the live playback wrapper *)

LiveResult(status, by, uuid, exc, orig_calls) ==
    [status |-> status, by |-> by, uuid |-> uuid, exc |-> exc, orig_calls |-> orig_calls]

\* the internal-id fallback of patched_stream_xc: Channel or None
InternalIdLookup(user, channel_id_str) ==
    LET internal_id == PyInt(channel_id_str)
        Plain(ch) == ch.id = internal_id.v
        ByLevel(ch) == ch.id = internal_id.v /\ ch.user_level <= user.user_level
        ByProfile(ch) == /\ ch.id = internal_id.v
                         /\ ch.user_level <= user.user_level
                         /\ ch.enabled_profiles \cap user.channel_profiles # {}
    IN  IF ~internal_id.ok THEN [some |-> FALSE, v |-> NoChannel]
        ELSE IF user.user_level < 10
        THEN IF Cardinality(user.channel_profiles) = 0
             THEN First(Channels, {i \in DOMAIN Channels : ByLevel(Channels[i])},
                        NoChannel)
             ELSE First(Channels, {i \in DOMAIN Channels : ByProfile(Channels[i])},
                        NoChannel)
        ELSE First(Channels, {i \in DOMAIN Channels : Plain(Channels[i])}, NoChannel)

RECURSIVE call_stream_xc(_, _, _)
RECURSIVE patched_stream_xc(_, _)

\* mutant of patched_stream_xc: the channel found is played without comparing
\* levels
patched_stream_xc_no_level_check(a, depth) ==
    LET IsNamed(u) == u.username = a.username
        user == First(Users, {i \in DOMAIN Users : IsNamed(Users[i])}, NoUser)
        channel_id_str == Stem(a.channel_id)
        custom_properties == OrEmptyDict(user.v.custom_properties)
        stream == XcStreamByProviderId(channel_id_str)
        by_provider == IF stream.some THEN FirstChannelOf(stream.v)
                       ELSE [some |-> FALSE, v |-> NoChannel]
        channel == IF by_provider.some THEN by_provider
                   ELSE InternalIdLookup(user.v, channel_id_str)
    IN  IF ~_is_plugin_enabled
        THEN call_stream_xc(_original_stream_xc, a, depth - 1)
        ELSE IF ~user.some
        THEN LiveResult(404, "plugin", "", "Http404", <<>>)
        ELSE IF "xc_password" \notin DOMAIN custom_properties
        THEN LiveResult(401, "plugin", "", "none", <<>>)
        ELSE IF custom_properties["xc_password"] # a.password
        THEN LiveResult(401, "plugin", "", "none", <<>>)
        ELSE IF ~channel.some
        THEN LiveResult(404, "plugin", "", "none", <<>>)
        ELSE LiveResult(200, "stream_ts", channel.v.uuid, "none", <<>>)

\* patched_stream_xc(request, username, password, channel_id); a is the record
\* of the three arguments.  orig_calls lists the argument records the host's
\* stream_xc was called with.
patched_stream_xc(a, depth) ==
    LET IsNamed(u) == u.username = a.username
        user == First(Users, {i \in DOMAIN Users : IsNamed(Users[i])}, NoUser)
        channel_id_str == Stem(a.channel_id)
        custom_properties == OrEmptyDict(user.v.custom_properties)
        stream == XcStreamByProviderId(channel_id_str)
        by_provider == IF stream.some THEN FirstChannelOf(stream.v)
                       ELSE [some |-> FALSE, v |-> NoChannel]
        channel == IF by_provider.some THEN by_provider
                   ELSE InternalIdLookup(user.v, channel_id_str)
    IN  IF ~_is_plugin_enabled
        THEN call_stream_xc(_original_stream_xc, a, depth - 1)
        ELSE IF ~user.some
        THEN LiveResult(404, "plugin", "", "Http404", <<>>)
        ELSE IF "xc_password" \notin DOMAIN custom_properties
        THEN LiveResult(401, "plugin", "", "none", <<>>)
        ELSE IF custom_properties["xc_password"] # a.password
        THEN LiveResult(401, "plugin", "", "none", <<>>)
        ELSE IF ~channel.some
        THEN LiveResult(404, "plugin", "", "none", <<>>)
        ELSE IF user.v.user_level < channel.v.user_level
        THEN LiveResult(404, "plugin", "", "none", <<>>)
        ELSE LiveResult(200, "stream_ts", channel.v.uuid, "none", <<>>)

\* calling the function object f as a view with the arguments a
call_stream_xc(f, a, depth) ==
    IF depth = 0
    THEN LiveResult(500, "interpreter", "", "RecursionError", <<>>)
    ELSE IF f = None
    THEN LiveResult(500, "interpreter", "", "TypeError", <<>>)
    ELSE IF f.k = "patched_stream_xc"
    THEN patched_stream_xc(a, depth)
    ELSE IF f.k = "stream_xc"
    THEN LiveResult(200, "host_stream_xc", "", "none", <<a>>)
    ELSE LiveResult(404, "handle_404", "", "none", <<>>)

-----------------------------------------------------------------------------
(* Requests *)

TsGood == <<"2", "0", "2", "5", "-", "0", "1", "-", "1", "5", ":", "1", "4", "-", "3", "0">>
TsOdd == <<"1", "2", ":", "-">>

\* (username, password) pairs sent by clients
RequestCredentials ==
    {<<John, Secret>>, <<John, Wrong>>, <<Root, RootPw>>, <<Anna, Wrong>>,
     <<Nopw, Secret>>, <<Ghost, Secret>>}
ProviderIdInputs == {P22, P7, P5, P9, P1}

\* (leading segments, third segment, timestamp) combinations
PathShapes ==
    {<<<<Empty>>, P1, TsGood>>, <<<<>>, P1, TsGood>>, <<<<Empty>>, P9, TsGood>>,
     <<<<Empty>>, P1, TsOdd>>}

\* the path [/]timeshift/{username}/{password}/{third}/{timestamp}/{fifth}.ts
ShapedPath(sh, c, s5) == sh[1] \o <<Timeshift, c[1], c[2], sh[2], sh[3], s5 \o DotTs>>

\* paths of the shape the player app sends
ShapedPaths ==
    { ShapedPath(sh, c, s5) :
        sh \in PathShapes, c \in RequestCredentials, s5 \in ProviderIdInputs }

\* other paths: other routes and near misses of the pattern
OtherTails ==
    { <<Live, John, Secret, P22>>,
      <<Empty, Timeshift, John, Secret, P1, TsGood, P22 \o DotTs>>,
      <<Timeshift, John, Secret, <<"x">>, TsGood, P22 \o DotTs>>,
      <<Timeshift, John, Secret, P1, <<"1", "a">>, P22 \o DotTs>>,
      <<Timeshift, John, Secret, P1, TsGood, P22>>,
      <<Timeshift, John, Secret, P1, TsGood, DotTs>>,
      <<Timeshift, John, Secret, P1, TsGood, P22 \o DotTs \o <<"x">> >>,
      <<Timeshift, John, Secret, P1, TsGood, <<"x">> \o DotTs>>,
      <<Timeshift, John, Secret, P1, TsGood, P22 \o DotTs, Empty>>,
      <<Timeshift, John, Secret, P1, TsGood>>,
      <<Timeshift, Empty, Secret, P1, TsGood, P22 \o DotTs>>,
      <<Timeshift, John, Secret, Empty, TsGood, P22 \o DotTs>>,
      <<Timeshift \o <<"x">>, John, Secret, P1, TsGood, P22 \o DotTs>>,
      <<<<"x">>, Timeshift, John, Secret, P1, TsGood, P22 \o DotTs>>,
      <<Timeshift>> }

OtherPaths == { <<Empty>> \o t : t \in OtherTails } \cup {<<Timeshift>>, <<Empty>>}

RequestPaths == ShapedPaths \cup OtherPaths

\* The host answers a request: resolve the path, then call the matched view.
HandleRequest ==
    \E path \in RequestPaths :
        LET r == call_resolve(URLResolver_resolve, path, MaxDepth)
            response ==
                IF r.exc # "none" THEN Response(500, "Server Error", r.exc, <<>>)
                ELSE IF r.match.func = TimeshiftProxyView
                THEN timeshift_proxy(r.match.kwargs)
                ELSE Response(404, "Not Found", "none", <<>>)
        IN  /\ last' = [op |-> "request", arg |-> [path |-> path],
                        res |-> [exc |-> r.exc, match |-> r.match,
                                 orig_calls |-> r.orig_calls, response |-> response]]
            /\ UNCHANGED <<hookVars, installs, plugin_config>>

\* The host's player API lists the live streams for an authenticated user.
CatalogRequest ==
    \E i \in 1..Len(Users) :
        /\ last' = [op |-> "catalog", arg |-> [user |-> i],
                    res |-> call_xc_get_live_streams(xc_get_live_streams, Users[i],
                                                     MaxDepth)]
        /\ UNCHANGED <<hookVars, installs, plugin_config>>

LiveCredentials ==
    {<<John, Secret>>, <<John, Wrong>>, <<Root, RootPw>>, <<Nopw, Secret>>,
     <<Paul, Secret>>, <<Ghost, Secret>>}
LiveChannelIds ==
    {P22 \o DotTs, P7 \o DotTs, P1 \o DotTs, <<"2">>, P4, <<"x">> \o DotTs}

\* The host routes a live playback URL to the callback of one of its patterns.
LiveRequest ==
    \E p \in {"xc_live", "xc_short"}, c \in LiveCredentials, id \in LiveChannelIds :
        LET a == [username |-> c[1], password |-> c[2], channel_id |-> id] IN
        /\ last' = [op |-> "live", arg |-> [pattern |-> p, a |-> a],
                    res |-> call_stream_xc(urlpatterns[p], a, MaxDepth)]
        /\ UNCHANGED <<hookVars, installs, plugin_config>>

-----------------------------------------------------------------------------
(* _proxy_stream: the upstream call and the response relayed to the client *)

\* a header lookup: request.META.get(key), response.headers.get(key)
NoValue == [some |-> FALSE, v |-> ""]
HeaderGet(d, key) == IF key \in DOMAIN d THEN [some |-> TRUE, v |-> d[key]] ELSE NoValue

\* "for header in ['Content-Length', 'Content-Range', 'Accept-Ranges']"
RelayedHeaders == {"Content-Length", "Content-Range", "Accept-Ranges"}

\* What the provider does with one GET.  raises: the exception requests.get
\* raises ("none" when it returns a response); text: what reading
\* response.text gives; body: how iterating response.iter_content ends,
\* "complete" or the exception it raises after `chunks` chunks.
Upstream(raises, status_code, headers, text, body, chunks) ==
    [raises |-> raises, status_code |-> status_code, headers |-> headers,
     text |-> text, body |-> body, chunks |-> chunks]

\* mutant of requests_get: a timed-out call is attempted a second time
requests_get_retry(url, headers, upstream) ==
    LET call == [method |-> "GET", url |-> url, headers |-> headers,
                 stream |-> TRUE, timeout |-> 10]
    IN  [calls |-> IF upstream.raises = "Timeout" THEN <<call, call>> ELSE <<call>>,
         outcome |-> upstream]

\* "response = requests.get(url, headers=headers, stream=True, timeout=10)":
\* the one place an upstream request is made
requests_get(url, headers, upstream) ==
    LET call == [method |-> "GET", url |-> url, headers |-> headers,
                 stream |-> TRUE, timeout |-> 10]
    IN  [calls |-> <<call>>, outcome |-> upstream]

\* mutant of StreamableStatus: every 2xx status is streamed
StreamableStatus_any_2xx(status_code) == status_code >= 200 /\ status_code < 300

\* "response.status_code not in (200, 206)" is the error branch
StreamableStatus(status_code) == status_code \in {200, 206}

\* mutant of RangeHeaders: an empty Range value is forwarded too
RangeHeaders_when_present(request) ==
    LET range_header == HeaderGet(request.META, "HTTP_RANGE")
    IN  IF range_header.some THEN [h \in {"Range"} |-> range_header.v]
        ELSE [h \in {} |-> ""]

\* "range_header = request.META.get('HTTP_RANGE'); if range_header:
\*  headers['Range'] = range_header": the Range entry of the upstream headers
RangeHeaders(request) ==
    LET range_header == HeaderGet(request.META, "HTTP_RANGE")
    IN  IF range_header.some /\ range_header.v # ""
        THEN [h \in {"Range"} |-> range_header.v]
        ELSE [h \in {} |-> ""]

\* "if header in response.headers: streaming_response[header] = ..."
CopiedHeaders(response_headers) ==
    [h \in RelayedHeaders \cap DOMAIN response_headers |-> response_headers[h]]

ProxyResult(status, body, detail, r) ==
    [status |-> status, body |-> body, detail |-> detail, streaming |-> FALSE,
     content_type |-> "text/html", headers |-> [h \in {} |-> ""],
     chunks |-> 0, exc |-> "none", upstream_calls |-> r.calls]

\* _proxy_stream(request, url, user_agent), followed by the host sending the
\* returned response.  A streaming response's generator runs while the host
\* sends the body, after _proxy_stream has returned: exc is the exception
\* that leaves the generator then.
_proxy_stream(request, url, user_agent, upstream) ==
    LET headers == [h \in {"User-Agent"} \cup DOMAIN RangeHeaders(request) |->
                       IF h = "User-Agent" THEN user_agent
                       ELSE RangeHeaders(request)[h]]
        r == requests_get(url, headers, upstream)
        response == r.outcome
        content_type == HeaderGet(response.headers, "Content-Type")
    IN  IF response.raises = "Timeout"
        THEN ProxyResult(400, "Provider timeout", 0, r)
        ELSE IF response.raises \in {"ConnectionError", "RequestException"}
        THEN ProxyResult(400, "Provider connection error", 0, r)
        ELSE IF ~StreamableStatus(response.status_code)
        THEN ProxyResult(400, "Provider error", response.status_code, r)
        ELSE [status |-> response.status_code, body |-> "stream", detail |-> 0,
              streaming |-> TRUE,
              content_type |-> IF content_type.some THEN content_type.v
                               ELSE "video/mp2t",
              headers |-> CopiedHeaders(response.headers),
              chunks |-> response.chunks,
              exc |-> IF response.body = "complete" THEN "none" ELSE response.body,
              upstream_calls |-> r.calls]

\* inbound requests: no Range header, an empty one, a byte range
ProxyRequests ==
    { [META |-> [h \in {} |-> ""]],
      [META |-> [h \in {"HTTP_RANGE"} |-> ""]],
      [META |-> [h \in {"HTTP_RANGE"} |-> "bytes=1000-"]] }

UpstreamHeaderValues ==
    [h \in {"Content-Type", "Content-Length", "Content-Range", "Accept-Ranges",
            "Server"} |->
        CASE h = "Content-Type" -> "video/mp4"
          [] h = "Content-Length" -> "4000"
          [] h = "Content-Range" -> "bytes 1000-4999/5000"
          [] h = "Accept-Ranges" -> "bytes"
          [] OTHER -> "nginx"]

UpstreamHeaders ==
    { [h \in D |-> UpstreamHeaderValues[h]] : D \in SUBSET DOMAIN UpstreamHeaderValues }

ErrorStatuses == {204, 403, 404, 500}

\* the provider's possible behaviours for one GET
UpstreamOutcomes ==
    { Upstream(e, 0, [h \in {} |-> ""], "empty", "complete", 0) :
        e \in {"Timeout", "ConnectionError", "RequestException"} }
    \cup { Upstream("none", s, [h \in {} |-> ""], t, "complete", 0) :
             s \in ErrorStatuses, t \in {"text", "empty", "unreadable"} }
    \cup { Upstream("none", s, h, "text", "complete", 2) :
             s \in {200, 206}, h \in UpstreamHeaders }
    \cup { Upstream("none", s, h, "text", b, 1) :
             s \in {200, 206}, h \in UpstreamHeaders,
             b \in {"ConnectionError", "ChunkedEncodingError"} }

ProviderUrl == "http://provider.example/streaming/timeshift.php"
UserAgent == "VLC/3.0"

\* _proxy_stream is called for a client request and its response is sent
ProxyStreamCall ==
    \E request \in ProxyRequests, upstream \in UpstreamOutcomes :
        /\ last' = [op |-> "proxy",
                    arg |-> [request |-> request, upstream |-> upstream],
                    res |-> _proxy_stream(request, ProviderUrl, UserAgent, upstream)]
        /\ UNCHANGED <<hookVars, installs, plugin_config>>

\* identifiers handed to the resolution function: provider ids, internal ids and
\* strings that are no base-10 integer
ResolveInputs ==
    ProviderIdInputs \cup {P4, <<"2">>, <<"x">>, <<"2", "2", "x">>, Empty, <<"0", "7">>}

\* _find_channel_by_provider_stream_id is applied to an identifier
FindChannelCall ==
    \E id \in ResolveInputs :
        /\ last' = [op |-> "find", arg |-> [provider_stream_id |-> id],
                    res |-> _find_channel_by_provider_stream_id(id)]
        /\ UNCHANGED <<hookVars, installs, plugin_config>>

\* the wrapper functions install_hooks creates
Wrappers == {"patched_resolve", "patched_xc_get_live_streams", "patched_stream_xc"}

\* A caller that obtained a reference to a wrapper when it was installed calls
\* it now: the wrapper runs with the module globals as they are at this
\* moment.  host_calls counts the calls of the host's original function.
HeldWrapperCall ==
    \E w \in Wrappers :
        LET path == <<Empty, Live, John, Secret, P22>>
            a == [username |-> John, password |-> Secret, channel_id |-> P22 \o DotTs]
            resolved == call_resolve(Closure("patched_resolve", 1), path, MaxDepth)
            listed == call_xc_get_live_streams(
                          Closure("patched_xc_get_live_streams", 1), Users[1], MaxDepth)
            played == call_stream_xc(Closure("patched_stream_xc", 1), a, MaxDepth)
        IN  /\ installs >= 1
            /\ last' = [op |-> "held_wrapper", arg |-> [wrapper |-> w],
                        res |-> CASE w = "patched_resolve" ->
                                     [exc |-> resolved.exc,
                                      host_calls |-> Len(resolved.orig_calls)]
                                  [] w = "patched_xc_get_live_streams" ->
                                     [exc |-> listed.exc,
                                      host_calls |-> listed.host_calls]
                                  [] OTHER ->
                                     [exc |-> played.exc,
                                      host_calls |-> Len(played.orig_calls)]]
            /\ UNCHANGED <<hookVars, installs, plugin_config>>

-----------------------------------------------------------------------------
(* Specification *)

Init ==
    /\ URLResolver_resolve = HostResolve
    /\ xc_get_live_streams = HostXcGetLiveStreams
    /\ stream_xc = HostStreamXc
    /\ urlpatterns = HostUrlpatterns
    /\ _original_resolve = None
    /\ _original_xc_get_live_streams = None
    /\ _original_stream_xc = None
    /\ _original_url_callbacks = EmptyDict
    /\ installs = 0
    /\ plugin_config \in ConfigStates
    /\ last = [op |-> "none", arg |-> EmptyDict,
               res |-> [returned |-> TRUE, exc |-> "none"]]

Next ==
    \/ install_hooks
    \/ uninstall_hooks
    \/ SetPluginConfig
    \/ HandleRequest
    \/ CatalogRequest
    \/ LiveRequest
    \/ HeldWrapperCall

Spec == Init /\ [][Next]_vars

\* The hooks installed once at startup and left installed: only the enable
\* flag changes while requests are served.
InitInstalled ==
    /\ URLResolver_resolve = Closure("patched_resolve", 1)
    /\ xc_get_live_streams = Closure("patched_xc_get_live_streams", 1)
    /\ stream_xc = Closure("patched_stream_xc", 1)
    /\ urlpatterns = [p \in Patterns |->
                         IF p = "catch_all" THEN HostOtherView
                         ELSE Closure("patched_stream_xc", 1)]
    /\ _original_resolve = HostResolve
    /\ _original_xc_get_live_streams = HostXcGetLiveStreams
    /\ _original_stream_xc = HostStreamXc
    /\ _original_url_callbacks = [p \in {"xc_live", "xc_short"} |-> HostStreamXc]
    /\ installs = 1
    /\ plugin_config = "enabled"
    /\ last = [op |-> "install_hooks", arg |-> EmptyDict,
               res |-> [returned |-> TRUE, exc |-> "none"]]

NextInstalled ==
    \/ SetPluginConfig
    \/ HandleRequest
    \/ CatalogRequest
    \/ LiveRequest

SpecInstalled == InitInstalled /\ [][NextInstalled]_vars

\* The hooks installed once and the plugin enabled: the requests the plugin
\* serves, and its resolution and proxy functions applied to their inputs.
NextServing ==
    \/ HandleRequest
    \/ CatalogRequest
    \/ LiveRequest
    \/ FindChannelCall
    \/ ProxyStreamCall

SpecServing == InitInstalled /\ [][NextServing]_vars

-----------------------------------------------------------------------------
(* Properties *)

PatchedResolveInstalled == URLResolver_resolve.k = "patched_resolve"

\* C1: pass-through of the wrapped resolver.  When a request is resolved by
\* patched_resolve and its path does not have the timeshift shape, or the
\* plugin is not enabled, the host's resolve function is called exactly once,
\* with the unchanged path, its result is returned, and the timeshift handler
\* is not selected.
C1_PassThrough ==
    ( /\ last.op = "request"
      /\ PatchedResolveInstalled
      /\ (last.arg.path \in OtherPaths \/ plugin_config # "enabled") )
    => /\ last.res.exc = "none"
       /\ last.res.orig_calls = <<last.arg.path>>
       /\ last.res.match = HostResolverMatch(last.arg.path)
       /\ last.res.match.func # TimeshiftProxyView

\* a near miss (a "/" follows "22.ts") passed through while the plugin is enabled
C1_Witness ==
    /\ last.op = "request"
    /\ PatchedResolveInstalled
    /\ plugin_config = "enabled"
    /\ last.arg.path = <<Empty, Timeshift, John, Secret, P1, TsGood, P22 \o DotTs, Empty>>
    /\ last.res.orig_calls = <<last.arg.path>>

\* C2: with the plugin enabled, a path of the timeshift shape resolved by
\* patched_resolve is routed to the timeshift handler with the five captured
\* groups as keyword arguments, and the host's resolve function is not called.
C2_RoutesToHandler ==
    ( /\ last.op = "request"
      /\ PatchedResolveInstalled
      /\ plugin_config = "enabled" )
    => \A sh \in PathShapes, c \in RequestCredentials, s5 \in ProviderIdInputs :
           last.arg.path = ShapedPath(sh, c, s5)
           => /\ last.res.exc = "none"
              /\ last.res.match.func = TimeshiftProxyView
              /\ last.res.match.kwargs =
                     [username |-> c[1], password |-> c[2], stream_id |-> sh[2],
                      timestamp |-> sh[3], duration |-> s5]
              /\ last.res.orig_calls = <<>>

\* "timeshift/john/secret/1/2025-01-15:14-30/22.ts" was routed to the handler
C2_Witness ==
    /\ last.op = "request"
    /\ PatchedResolveInstalled
    /\ plugin_config = "enabled"
    /\ last.arg.path = ShapedPath(<<<<>>, P1, TsGood>>, <<John, Secret>>, P22)
    /\ last.res.match.func = TimeshiftProxyView
    /\ last.res.match.kwargs.duration = P22

\* C3: install idempotence.  An install_hooks call made while the hooks are
\* installed (the saved resolver is set: no uninstall since the last install)
\* changes none of the entry points, pattern callbacks and saved originals.
C3_InstallIdempotent ==
    [][(install_hooks /\ _original_resolve # None) => UNCHANGED hookVars]_vars

\* C4: uninstall restores the host.  After uninstall_hooks, whatever installs
\* and uninstalls came before, every entry point and pattern callback is the
\* host's own function and every saved original is cleared.
C4_UninstallRestoresHost ==
    last.op = "uninstall_hooks"
    => /\ URLResolver_resolve = HostResolve
       /\ xc_get_live_streams = HostXcGetLiveStreams
       /\ stream_xc = HostStreamXc
       /\ urlpatterns = HostUrlpatterns
       /\ _original_resolve = None
       /\ _original_xc_get_live_streams = None
       /\ _original_stream_xc = None
       /\ _original_url_callbacks = EmptyDict

NothingInstalled ==
    /\ _original_resolve = None
    /\ _original_xc_get_live_streams = None
    /\ _original_stream_xc = None

\* C5: uninstall_hooks called while nothing is installed (no saved original
\* is set) raises nothing and leaves the entry points, the pattern callbacks
\* and the saved originals as they were.
C5_UninstallNoop ==
    [][(uninstall_hooks /\ NothingInstalled)
          => (UNCHANGED hookVars /\ last'.res.exc = "none")]_vars

\* uninstall_hooks was called before any install_hooks
C5_Witness ==
    /\ last.op = "uninstall_hooks"
    /\ installs = 0
    /\ URLResolver_resolve = HostResolve
    /\ xc_get_live_streams = HostXcGetLiveStreams
    /\ urlpatterns = HostUrlpatterns

\* C6: runtime toggle.  With the hooks installed once, every call of a wrapped
\* function follows the enable flag as it is at that call: not enabled, the
\* call is handed to the host's function once, with the same arguments, and
\* its result is returned; enabled, the plugin's logic runs.
C6_ToggleTakesEffect ==
    /\ last.op = "request"
       => IF plugin_config = "enabled"
          THEN last.arg.path \in ShapedPaths
               => (last.res.match.by = "plugin" /\ last.res.orig_calls = <<>>)
          ELSE /\ last.res.exc = "none"
               /\ last.res.orig_calls = <<last.arg.path>>
               /\ last.res.match = HostResolverMatch(last.arg.path)
    /\ last.op = "catalog"
       => /\ last.res.exc = "none"
          /\ last.res.host_calls = 1
          /\ IF plugin_config = "enabled"
             THEN last.res.passes = 1
             ELSE /\ last.res.passes = 0
                  /\ last.res.streams = HostCatalog(Users[last.arg.user])
    /\ last.op = "live"
       => IF plugin_config = "enabled"
          THEN last.res.by \in {"plugin", "stream_ts"} /\ last.res.orig_calls = <<>>
          ELSE last.res.by = "host_stream_xc" /\ last.res.orig_calls = <<last.arg.a>>

\* the plugin, enabled at startup, was disabled and the next live request
\* went to the host's stream_xc
C6_Witness ==
    /\ last.op = "live"
    /\ plugin_config = "disabled"
    /\ last.res.by = "host_stream_xc"
    /\ last.res.orig_calls = <<last.arg.a>>

\* C7: fail-closed enable check.  While the configuration cannot be read (row
\* missing, storage error) no call of a wrapped function runs plugin logic:
\* no path is routed to the timeshift handler, no catalog entry is decorated,
\* no playback is served by the plugin; the call takes the delegating branch
\* (and reaches the host's function with the same arguments wherever the
\* saved original is the host's function), and no fault of the read surfaces.
C7_FailClosed ==
    plugin_config \in {"missing", "error"}
    => /\ last.op = "request"
          => /\ last.res.match.by # "plugin"
             /\ last.res.response.steps = <<>>
             /\ last.res.exc = "none"
             /\ PatchedResolveInstalled => last.res.orig_calls = <<last.arg.path>>
       /\ last.op = "catalog"
          => /\ last.res.passes = 0
             /\ last.res.exc \in {"none", "TypeError", "RecursionError"}
             /\ ( /\ xc_get_live_streams.k = "patched_xc_get_live_streams"
                  /\ _original_xc_get_live_streams = HostXcGetLiveStreams )
                => /\ last.res.exc = "none"
                   /\ last.res.host_calls = 1
                   /\ last.res.streams = HostCatalog(Users[last.arg.user])
       /\ last.op = "live"
          => /\ last.res.by \notin {"plugin", "stream_ts"}
             /\ last.res.exc \in {"none", "TypeError", "RecursionError"}
             /\ ( /\ urlpatterns[last.arg.pattern].k = "patched_stream_xc"
                  /\ _original_stream_xc = HostStreamXc )
                => /\ last.res.by = "host_stream_xc"
                   /\ last.res.orig_calls = <<last.arg.a>>

\* a timeshift-shaped path resolved by the wrapper while the read fails
C7_Witness ==
    /\ plugin_config = "error"
    /\ last.op = "request"
    /\ PatchedResolveInstalled
    /\ last.arg.path \in ShapedPaths
    /\ last.res.orig_calls = <<last.arg.path>>

\* the pair names a user whose xc_password is set, non-empty and equal to p
ValidCredentials(u, p) ==
    \E i \in 1..Len(Users) :
        /\ Users[i].username = u
        /\ Users[i].custom_properties.some
        /\ "xc_password" \in DOMAIN Users[i].custom_properties.v
        /\ Users[i].custom_properties.v["xc_password"] # Empty
        /\ Users[i].custom_properties.v["xc_password"] = p

TimeshiftHandled == last.op = "request" /\ last.res.match.by = "plugin"

\* C8: timeshift authentication.  A request that reached the handler is
\* answered 403 in the authenticate step, with no upstream call, unless its
\* username names a user whose xc_password is set, non-empty and equal to the
\* supplied password; with such a pair the handler goes on to resolution.
C8_Authentication ==
    TimeshiftHandled
    => LET kw == last.res.match.kwargs
           resp == last.res.response
       IN  IF ValidCredentials(kw.username, kw.password)
           THEN Len(resp.steps) >= 2 /\ resp.steps[2] = "resolve"
           ELSE /\ resp.status = 403
                /\ resp.steps = <<"authenticate">>
                /\ resp.upstream_gets = 0

\* john with a wrong password was refused
C8_Witness ==
    /\ TimeshiftHandled
    /\ last.res.match.kwargs.username = John
    /\ last.res.match.kwargs.password = Wrong
    /\ last.res.response.status = 403
    /\ last.res.response.steps = <<"authenticate">>

\* C9: timeshift authorization.  For an authenticated user of level L and a
\* resolved channel requiring level R the handler answers 403 in the
\* authorize step, with no upstream call, when R > L, and enters the feature
\* check when R <= L.
C9_Authorization ==
    TimeshiftHandled
    => LET kw == last.res.match.kwargs
           resp == last.res.response
           user == _authenticate_user(kw.username, kw.password)
           found == _find_channel_by_provider_stream_id(kw.duration)
       IN  (user.some /\ found.channel.some)
           => IF found.channel.v.user_level > user.v.user_level
              THEN /\ resp.status = 403
                   /\ resp.body = "Access denied"
                   /\ resp.steps = <<"authenticate", "resolve", "authorize">>
                   /\ resp.upstream_gets = 0
              ELSE /\ Len(resp.steps) >= 4
                   /\ resp.steps[4] = "feature_check"

\* john (level 1) asked for provider id 7, whose channel requires level 10
C9_Witness ==
    /\ TimeshiftHandled
    /\ last.res.match.kwargs.username = John
    /\ last.res.match.kwargs.password = Secret
    /\ last.res.match.kwargs.duration = P7
    /\ last.res.response.status = 403
    /\ last.res.response.body = "Access denied"

\* C10: feature check.  An authenticated, authorized request whose resolved
\* stream has tv_archive 0 or absent is answered 400 "Catchup/timeshift not
\* supported", with no upstream call.
C10_FeatureCheck ==
    TimeshiftHandled
    => LET kw == last.res.match.kwargs
           resp == last.res.response
           user == _authenticate_user(kw.username, kw.password)
           found == _find_channel_by_provider_stream_id(kw.duration)
           tv_archive == DictGet(OrEmptyDict(found.stream.v.custom_properties),
                                 "tv_archive")
       IN  ( /\ user.some
             /\ found.channel.some
             /\ found.channel.v.user_level <= user.v.user_level
             /\ (~tv_archive.some \/ tv_archive.v = <<"0">>) )
           => /\ resp.status = 400
              /\ resp.body = "Catchup/timeshift not supported for this channel"
              /\ resp.upstream_gets = 0

\* C11: end-to-end success.  A request with valid credentials, whose provider
\* id resolves to a stream of an XC account with tv_archive set and whose
\* channel level the user satisfies, reaches the proxy step: one upstream GET
\* is issued and the client receives the upstream's 200 or 206.
C11_EndToEnd ==
    TimeshiftHandled
    => LET kw == last.res.match.kwargs
           resp == last.res.response
           user == _authenticate_user(kw.username, kw.password)
           found == _find_channel_by_provider_stream_id(kw.duration)
           tv_archive == DictGet(OrEmptyDict(found.stream.v.custom_properties),
                                 "tv_archive")
       IN  ( /\ user.some
             /\ found.channel.some
             /\ found.channel.v.user_level <= user.v.user_level
             /\ Accounts[found.stream.v.m3u_account].account_type = "XC"
             /\ tv_archive.some /\ tv_archive.v = <<"1">> )
           => /\ resp.steps = <<"authenticate", "resolve", "authorize",
                                "feature_check", "provider_check", "build_url",
                                "proxy">>
              /\ resp.upstream_gets = 1
              /\ resp.status \in {200, 206}

ProxyCalled == last.op = "proxy"

\* C12: upstream status mapping.  When the upstream answers with a status
\* other than 200 and 206 the client receives 400 and nothing is streamed;
\* a streaming response is produced only for 200 and 206, with that status.
C12_UpstreamStatusMapping ==
    (ProxyCalled /\ last.arg.upstream.raises = "none")
    => LET up == last.arg.upstream
           res == last.res
       IN  /\ up.status_code \notin {200, 206}
              => /\ res.status = 400
                 /\ ~res.streaming
                 /\ res.chunks = 0
           /\ res.streaming
              => /\ up.status_code \in {200, 206}
                 /\ res.status = up.status_code
           /\ up.status_code \in {200, 206} => res.streaming

\* the upstream answered 204 and the client was answered 400
C12_Witness ==
    /\ ProxyCalled
    /\ last.arg.upstream.raises = "none"
    /\ last.arg.upstream.status_code = 204
    /\ last.res.status = 400
    /\ ~last.res.streaming

\* C13: no retries.  A client timeshift request causes at most one upstream
\* GET, whatever the upstream's outcome: a request ended by the handler
\* before the proxy step causes none, and a call of _proxy_stream makes
\* exactly one, also when the upstream times out, fails or answers an error.
C13_AtMostOneUpstreamGet ==
    /\ last.op = "request" => last.res.response.upstream_gets <= 1
    /\ ProxyCalled
       => /\ Len(last.res.upstream_calls) = 1
          /\ last.res.upstream_calls[1].method = "GET"
          /\ last.res.upstream_calls[1].url = ProviderUrl

\* the upstream timed out: the client was answered 400 after a single GET
C13_Witness ==
    /\ ProxyCalled
    /\ last.arg.upstream.raises = "Timeout"
    /\ last.res.status = 400
    /\ Len(last.res.upstream_calls) = 1

\* C14: upstream failures never escape.  A timeout, connection error or other
\* request failure of the upstream call, raised when connecting or while the
\* body is read and streamed to the client, is answered with 400 and no
\* exception leaves the plugin's code.
C14_UpstreamFailuresNeverEscape ==
    ( /\ ProxyCalled
      /\ \/ last.arg.upstream.raises # "none"
         \/ (/\ StreamableStatus(last.arg.upstream.status_code)
             /\ last.arg.upstream.body # "complete") )
    => /\ last.res.status = 400
       /\ last.res.exc = "none"

RelayedCorrectly ==
    LET up == last.arg.upstream
        res == last.res
    IN  res.streaming
        => \A h \in RelayedHeaders :
              IF h \in DOMAIN up.headers
              THEN h \in DOMAIN res.headers /\ res.headers[h] = up.headers[h]
              ELSE h \notin DOMAIN res.headers

\* C15: Range support, as claimed.  When the inbound request carries a Range
\* header its value is sent unchanged on the upstream request, and no Range
\* header is sent when the inbound request has none; on a successful response
\* each of Content-Length, Content-Range and Accept-Ranges the upstream
\* supplied is relayed with the same value and none is added that the
\* upstream omitted.
C15_RangeSupport ==
    ProxyCalled
    => LET META == last.arg.request.META
           sent == last.res.upstream_calls[1].headers
       IN  /\ IF "HTTP_RANGE" \in DOMAIN META
              THEN "Range" \in DOMAIN sent /\ sent["Range"] = META["HTTP_RANGE"]
              ELSE "Range" \notin DOMAIN sent
           /\ RelayedCorrectly

\* C15, amended.  A non-empty inbound Range value is sent unchanged on the
\* upstream request; no Range header is sent when the inbound request has
\* none or an empty one; on a successful response each of Content-Length,
\* Content-Range and Accept-Ranges the upstream supplied is relayed with the
\* same value and none is added that the upstream omitted.
C15_RangeSupportNonEmpty ==
    ProxyCalled
    => LET META == last.arg.request.META
           sent == last.res.upstream_calls[1].headers
       IN  /\ IF "HTTP_RANGE" \in DOMAIN META /\ META["HTTP_RANGE"] # ""
              THEN "Range" \in DOMAIN sent /\ sent["Range"] = META["HTTP_RANGE"]
              ELSE "Range" \notin DOMAIN sent
           /\ sent["User-Agent"] = UserAgent
           /\ RelayedCorrectly

\* a byte-range request answered 206 with Content-Range relayed and no
\* Accept-Ranges, which the upstream had not sent
C15_Witness ==
    /\ ProxyCalled
    /\ last.arg.request.META = [h \in {"HTTP_RANGE"} |-> "bytes=1000-"]
    /\ last.res.upstream_calls[1].headers["Range"] = "bytes=1000-"
    /\ last.res.status = 206
    /\ "Content-Range" \in DOMAIN last.res.headers
    /\ last.res.headers["Content-Range"] = "bytes 1000-4999/5000"
    /\ "Accept-Ranges" \notin DOMAIN last.arg.upstream.headers
    /\ "Accept-Ranges" \notin DOMAIN last.res.headers

\* the XC streams whose provider id is sid and that belong to a channel
XcStreamsWithChannel(sid) ==
    {i \in DOMAIN Streams :
        /\ Streams[i].custom_properties.some
        /\ "stream_id" \in DOMAIN Streams[i].custom_properties.v
        /\ Streams[i].custom_properties.v["stream_id"] = sid
        /\ Streams[i].m3u_account \in DOMAIN Accounts
        /\ Accounts[Streams[i].m3u_account].account_type = "XC"
        /\ \E j \in DOMAIN Channels : InSeq(Streams[i].id, Channels[j].streams)}

\* the XC streams whose provider id is sid
XcStreamsWithId(sid) ==
    {i \in DOMAIN Streams :
        /\ Streams[i].custom_properties.some
        /\ "stream_id" \in DOMAIN Streams[i].custom_properties.v
        /\ Streams[i].custom_properties.v["stream_id"] = sid
        /\ Streams[i].m3u_account \in DOMAIN Accounts
        /\ Accounts[Streams[i].m3u_account].account_type = "XC"}

\* the first channel, in store order, that holds stream number i
FirstChannelHolding(i) ==
    LET held == {j \in DOMAIN Channels : InSeq(Streams[i].id, Channels[j].streams)}
    IN  Channels[CHOOSE j \in held : \A k \in held : j <= k]

\* C16: resolution by provider id.  For every stream of an XC account with
\* provider id P that belongs to a channel, resolving P gives that stream
\* with its first channel, in the timeshift resolution function and in live
\* playback (where a permitted user is served that channel).  Resolving a
\* string that is no XC stream's provider id and no base-10 integer finds no
\* channel, and nothing else is tried.
C16_ResolutionByProviderId ==
    /\ last.op = "find"
       => LET id == last.arg.provider_stream_id IN
          /\ \A i \in XcStreamsWithChannel(id) :
                /\ last.res.stream = Some(Streams[i])
                /\ last.res.channel = Some(FirstChannelHolding(i))
          /\ (XcStreamsWithId(id) = {} /\ ~PyInt(id).ok)
             => ~last.res.channel.some /\ ~last.res.stream.some
    /\ (last.op = "live" /\ ValidCredentials(last.arg.a.username, last.arg.a.password))
       => LET id == Stem(last.arg.a.channel_id)
              user == _authenticate_user(last.arg.a.username, last.arg.a.password).v
          IN
          /\ \A i \in XcStreamsWithChannel(id) :
                FirstChannelHolding(i).user_level <= user.user_level
                => /\ last.res.status = 200
                   /\ last.res.by = "stream_ts"
                   /\ last.res.uuid = FirstChannelHolding(i).uuid
          /\ (XcStreamsWithId(id) = {} /\ ~PyInt(id).ok)
             => last.res.status = 404 /\ last.res.by = "plugin"

\* provider id 22 was resolved to stream 1 and channel 1, the first of the two
\* channels holding that stream
C16_Witness ==
    /\ last.op = "find"
    /\ last.arg.provider_stream_id = P22
    /\ last.res.stream.some /\ last.res.stream.v.id = 1
    /\ last.res.channel.some /\ last.res.channel.v.id = 1
    /\ InSeq(1, Channels[3].streams)


\* str(n) for an integer n: the stream_id a client puts in a playback URL
RECURSIVE IntToStr(_)
IntToStr(n) ==
    IF n < 0 THEN <<"-">> \o IntToStr(0 - n)
    ELSE IF n < 10 THEN <<DigitSeq[n + 1]>>
    ELSE IntToStr(n \div 10) \o <<DigitSeq[(n % 10) + 1]>>

\* the channel row with internal id n
ChannelById(n) == Channels[CHOOSE i \in DOMAIN Channels : Channels[i].id = n]

\* C17: catalog and live playback agree on identifiers.  While the plugin is
\* enabled, for every entry the decorated catalog returns to a user for
\* channel C, a live playback request of that user (with valid credentials)
\* that uses the entry's stream_id is served channel C, by its UUID, whether
\* the entry's stream_id was rewritten or not.
C17_CatalogLiveConsistency ==
    (last.op = "live" /\ ValidCredentials(last.arg.a.username, last.arg.a.password))
    => LET user == _authenticate_user(last.arg.a.username, last.arg.a.password).v
           host == HostCatalog(user)
           catalog == call_xc_get_live_streams(xc_get_live_streams, user, MaxDepth)
       IN  (_is_plugin_enabled /\ catalog.exc = "none")
           => \A n \in DOMAIN catalog.streams :
                 IntToStr(catalog.streams[n].stream_id) = Stem(last.arg.a.channel_id)
                 => /\ last.res.status = 200
                    /\ last.res.by = "stream_ts"
                    /\ last.res.uuid = ChannelById(host[n].stream_id).uuid


\* days of month m of year y in the proleptic Gregorian calendar
DaysInMonth(y, m) ==
    IF m = 2
    THEN IF (y % 4 = 0 /\ y % 100 # 0) \/ y % 400 = 0 THEN 29 ELSE 28
    ELSE IF m \in {4, 6, 9, 11} THEN 30 ELSE 31

\* datetime.strptime(timestamp, "%Y-%m-%d:%H-%M") returns a value: four
\* digits of year, then month, day, hour and minute of one or two digits
\* each, in range, separated by "-", "-", ":" and "-"
StrptimeParses(timestamp) ==
    \E lm \in 1..2, ld \in 1..2, lH \in 1..2, lM \in 1..2 :
        LET pm == 6
            pd == pm + lm + 1
            pH == pd + ld + 1
            pM == pH + lH + 1
            Field(p, l) == SubSeq(timestamp, p, p + l - 1)
            Y == Field(1, 4)
            m == Field(pm, lm)
            d == Field(pd, ld)
            H == Field(pH, lH)
            M == Field(pM, lM)
        IN  /\ Len(timestamp) = pM + lM - 1
            /\ timestamp[5] = "-"
            /\ timestamp[pd - 1] = "-"
            /\ timestamp[pH - 1] = ":"
            /\ timestamp[pM - 1] = "-"
            /\ \A f \in {Y, m, d, H, M} : AllIn(f, Digits)
            /\ DecimalValue(Y) >= 1
            /\ DecimalValue(m) \in 1..12
            /\ DecimalValue(d) \in 1..DaysInMonth(DecimalValue(Y), DecimalValue(m))
            /\ DecimalValue(H) \in 0..23
            /\ DecimalValue(M) \in 0..59

\* C18: best-effort timestamp conversion.  When the timestamp of a request
\* that passed the five checks does not parse as YYYY-MM-DD:HH-MM, the
\* request is not failed: it goes on to URL building and the proxy step with
\* the original timestamp string.
C18_ConversionBestEffort ==
    TimeshiftHandled
    => LET kw == last.res.match.kwargs
           resp == last.res.response
           user == _authenticate_user(kw.username, kw.password)
           found == _find_channel_by_provider_stream_id(kw.duration)
           tv_archive == DictGet(OrEmptyDict(found.stream.v.custom_properties),
                                 "tv_archive")
       IN  ( /\ user.some
             /\ found.channel.some
             /\ found.channel.v.user_level <= user.v.user_level
             /\ Accounts[found.stream.v.m3u_account].account_type = "XC"
             /\ tv_archive.some /\ tv_archive.v = <<"1">>
             /\ ~StrptimeParses(kw.timestamp) )
           => /\ InSeq("build_url", resp.steps)
              /\ resp.exc = "none"


\* the handler's steps in their order
HandlerSteps ==
    <<"authenticate", "resolve", "authorize", "feature_check", "provider_check",
      "build_url", "proxy">>

\* C19: the handler is linear.  The steps a request enters are an initial
\* part of authenticate, resolve, authorize, feature check, provider check,
\* build URL, proxy, each entered once; a step is entered only when every
\* check before it passed, the request ends in the first step that fails,
\* and an upstream GET is issued only by a request that entered all steps.
C19_LinearHandler ==
    TimeshiftHandled
    => LET kw == last.res.match.kwargs
           resp == last.res.response
           n == Len(resp.steps)
           user == _authenticate_user(kw.username, kw.password)
           found == _find_channel_by_provider_stream_id(kw.duration)
       IN  /\ n >= 1 /\ n <= Len(HandlerSteps)
           /\ resp.steps = SubSeq(HandlerSteps, 1, n)
           /\ n >= 2 <=> user.some
           /\ n >= 3 <=> (user.some /\ found.channel.some)
           /\ n >= 4 <=> ( /\ user.some /\ found.channel.some
                           /\ found.channel.v.user_level <= user.v.user_level )
           /\ n = 1 => resp.status = 403
           /\ n = 2 => resp.status = 404
           /\ n = 3 => resp.status = 403
           /\ resp.upstream_gets > 0 => resp.steps = HandlerSteps

\* root asked for provider id 9, whose stream belongs to no channel: the
\* request ended in the resolve step, the second one
C19_Witness ==
    /\ TimeshiftHandled
    /\ last.res.match.kwargs.username = Root
    /\ last.res.match.kwargs.password = RootPw
    /\ last.res.match.kwargs.duration = P9
    /\ last.res.response.steps = <<"authenticate", "resolve">>
    /\ last.res.response.status = 404
    /\ last.res.response.upstream_gets = 0


\* C20: no internal-id fallback in timeshift.  When the identifier of an
\* authenticated timeshift request is the provider id of no XC stream that
\* belongs to a channel, the request ends 404 in the resolve step, also when
\* a channel with that internal id exists; a live playback request with such
\* an identifier is served the channel with that internal id, when the
\* user's level and profiles admit it.
C20_NoInternalIdFallback ==
    /\ ( /\ TimeshiftHandled
         /\ ValidCredentials(last.res.match.kwargs.username,
                             last.res.match.kwargs.password)
         /\ XcStreamsWithChannel(last.res.match.kwargs.duration) = {} )
       => /\ last.res.response.status = 404
          /\ last.res.response.steps = <<"authenticate", "resolve">>
          /\ last.res.response.upstream_gets = 0
    /\ ( /\ last.op = "live"
         /\ _is_plugin_enabled
         /\ last.res.by \in {"plugin", "stream_ts"}
         /\ ValidCredentials(last.arg.a.username, last.arg.a.password)
         /\ XcStreamsWithChannel(Stem(last.arg.a.channel_id)) = {}
         /\ PyInt(Stem(last.arg.a.channel_id)).ok )
       => LET user == _authenticate_user(last.arg.a.username, last.arg.a.password).v
              id == PyInt(Stem(last.arg.a.channel_id)).v
          IN  \A i \in DOMAIN Channels :
                 ( /\ Channels[i].id = id
                   /\ Channels[i].user_level <= user.user_level
                   /\ \/ user.user_level >= 10
                      \/ user.channel_profiles = {}
                      \/ Channels[i].enabled_profiles \cap user.channel_profiles # {} )
                 => /\ last.res.status = 200
                    /\ last.res.uuid = Channels[i].uuid

\* john asked for timeshift of identifier 1, the provider id of no stream and
\* the internal id of channel 1, which he may view: 404
C20_Witness ==
    /\ TimeshiftHandled
    /\ last.res.match.kwargs.username = John
    /\ last.res.match.kwargs.password = Secret
    /\ last.res.match.kwargs.duration = P1
    /\ \E i \in DOMAIN Channels :
          Channels[i].id = 1 /\ Channels[i].user_level <= 1
    /\ last.res.response.status = 404
    /\ last.res.response.steps = <<"authenticate", "resolve">>


\* the custom properties of the first stream of the channel a host catalog
\* entry stands for ({} when the stream has none)
FirstStreamProps(entry) ==
    LET channel == ChannelById(entry.stream_id)
        row == CHOOSE i \in DOMAIN Streams : Streams[i].id = channel.streams[1]
    IN  OrEmptyDict(Streams[row].custom_properties)

\* decorating the entry fails: no channel, no stream, or one of tv_archive,
\* tv_archive_duration and (a non-empty) stream_id is no integer
DecorationFails(entry) ==
    \/ ~\E i \in DOMAIN Channels : Channels[i].id = entry.stream_id
    \/ ChannelById(entry.stream_id).streams = <<>>
    \/ LET props == FirstStreamProps(entry) IN
       \/ \E key \in {"tv_archive", "tv_archive_duration"} :
             key \in DOMAIN props /\ ~PyInt(props[key]).ok
       \/ /\ "stream_id" \in DOMAIN props
          /\ props["stream_id"] # Empty
          /\ ~PyInt(props["stream_id"]).ok

\* C21: catalog decoration failure isolation.  While the plugin is enabled,
\* an entry whose decoration fails at any point is returned exactly as the
\* host produced it, with none of tv_archive, tv_archive_duration and
\* stream_id changed, and every other entry of the list is still decorated.
C21_DecorationFailureIsolation ==
    ( /\ last.op = "catalog"
      /\ _is_plugin_enabled
      /\ last.res.exc = "none"
      /\ last.res.passes = 1 )
    => LET host == HostCatalog(Users[last.arg.user])
           out == last.res.streams
       IN  /\ Len(out) = Len(host)
           /\ \A n \in DOMAIN host :
                 IF DecorationFails(host[n])
                 THEN out[n] = host[n]
                 ELSE /\ "tv_archive" \in DOMAIN out[n]
                      /\ "tv_archive_duration" \in DOMAIN out[n]


\* values of the third path segment (the "stream_id" group, \d+)
ThirdSegments == {P1, P9, P22, P7}

\* the view the host calls for a path, the exception of resolving it, and the
\* response it sends
ResponseTo(path) ==
    LET r == call_resolve(URLResolver_resolve, path, MaxDepth) IN
    [exc |-> r.exc, func |-> r.match.func,
     response |-> IF r.exc # "none" THEN Response(500, "Server Error", r.exc, <<>>)
                  ELSE IF r.match.func = TimeshiftProxyView
                  THEN timeshift_proxy(r.match.kwargs)
                  ELSE Response(404, "Not Found", "none", <<>>)]

\* C22: the third segment is never used.  A timeshift request and the request
\* that differs from it only in the third path segment are, in the same state,
\* given to the same view, take the same steps in the handler, cause the same
\* number of upstream GETs and get the same response.
C22_ThirdSegmentUnused ==
    (last.op = "request" /\ last.arg.path \in ShapedPaths)
    => \A third \in ThirdSegments :
          LET path == last.arg.path
              other == ResponseTo([path EXCEPT ![Len(path) - 2] = third])
          IN  /\ other.exc = last.res.exc
              /\ other.func = last.res.match.func
              /\ other.response = last.res.response

\* john's request with third segment 1 and fifth segment 22 was resolved by
\* the fifth segment: it passed resolution and authorization
C22_Witness ==
    /\ TimeshiftHandled
    /\ last.res.match.kwargs.username = John
    /\ last.res.match.kwargs.password = Secret
    /\ last.res.match.kwargs.stream_id = P1
    /\ last.res.match.kwargs.duration = P22
    /\ Len(last.res.response.steps) = 4


\* a live playback request was handled by the wrapper with the plugin enabled
LiveHandledByWrapper ==
    /\ last.op = "live"
    /\ urlpatterns[last.arg.pattern].k = "patched_stream_xc"
    /\ _is_plugin_enabled

\* C23: live playback never serves a channel above the user's level.  While
\* the plugin is enabled the wrapper calls the UUID playback function for a
\* channel only when the user exists, the supplied password equals the
\* user's xc_password and the user's level is at least the channel's, on
\* either resolution branch; every other request ends 401 or 404 and nothing
\* is played, by the plugin or by the host's function.
C23_LiveLevelEnforced ==
    LiveHandledByWrapper
    => LET a == last.arg.a
           res == last.res
       IN  IF res.by = "stream_ts"
           THEN /\ res.status = 200
                /\ \E i \in DOMAIN Users, j \in DOMAIN Channels :
                      /\ Users[i].username = a.username
                      /\ Users[i].custom_properties.some
                      /\ "xc_password" \in DOMAIN Users[i].custom_properties.v
                      /\ Users[i].custom_properties.v["xc_password"] = a.password
                      /\ Channels[j].uuid = res.uuid
                      /\ Users[i].user_level >= Channels[j].user_level
           ELSE /\ res.status \in {401, 404}
                /\ res.by = "plugin"
                /\ res.uuid = ""
                /\ res.orig_calls = <<>>

\* john (level 1) asked for 7.ts, the provider id of a stream of channel 2,
\* which requires level 10: 404 and nothing played
C23_Witness ==
    /\ LiveHandledByWrapper
    /\ last.arg.a.username = John
    /\ last.arg.a.password = Secret
    /\ last.arg.a.channel_id = P7 \o DotTs
    /\ FirstChannelOf(XcStreamByProviderId(P7).v).v.user_level = 10
    /\ last.res.status = 404
    /\ last.res.uuid = ""


\* C24: the catalog function terminates and calls the host once.  In every
\* state reachable by install_hooks and uninstall_hooks calls, a call of the
\* catalog-listing function installed at that moment returns, has called the
\* host's catalog function exactly once, and has decorated the list at most
\* once.
C24_CatalogCallsHostOnce ==
    last.op = "catalog"
    => /\ last.res.exc = "none"
       /\ last.res.host_calls = 1
       /\ last.res.passes <= 1


\* C25: a wrapper called around or after an uninstall delegates to the host.
\* When a wrapper installed by the one install_hooks call is invoked through
\* a reference held since then, its delegation calls the host's original
\* function, never a cleared saved original: the call raises nothing, the
\* resolver and catalog wrappers have called the host once, and so has the
\* playback wrapper when the plugin is not enabled.
C25_HeldWrapperDelegates ==
    (last.op = "held_wrapper" /\ installs = 1)
    => /\ last.res.exc = "none"
       /\ last.arg.wrapper \in {"patched_resolve", "patched_xc_get_live_streams"}
          => last.res.host_calls = 1
       /\ (last.arg.wrapper = "patched_stream_xc" /\ ~_is_plugin_enabled)
          => last.res.host_calls = 1

====
